---- MODULE Spec2Model ----
(***************************************************************************)
(* Model of olcs.FeatureConverter (src/src/featureconverter.js): the       *)
(* conversion of OpenLayers vector features and styles to Cesium           *)
(* primitives, labels and billboards.                                      *)
(*                                                                         *)
(* Every JavaScript value is a record with a "kind" field, so that values  *)
(* of different types can be compared.  A function of the source with side *)
(* effects is an operator taking the world w (contexts, listeners, image   *)
(* load states) and yielding [ret |-> value, w |-> world after the call];  *)
(* a raised exception is the value Error(..) in ret, with the effects made *)
(* before the throw kept in w.                                             *)
(***************************************************************************)
EXTENDS Integers, Sequences, FiniteSets, TLC

VARIABLES
  layer,               \* the ol.layer.Vector: source features, style function
  scene,               \* the Cesium scene (maximumAliasedLineWidth)
  complete,            \* per Image: src set, natural size known, complete
  contexts,            \* the OlFeatureToCesiumContext objects created so far
  listeners,           \* pending one-shot 'load' listeners, registration order
  featurePrimitiveMap, \* the map supplied to olVectorLayerToCesium
  input,               \* arguments of the next direct call of a method
  call,                \* the last call made: method, arguments, result
  calls                \* number of calls made

vars == <<layer, scene, complete, contexts, listeners, featurePrimitiveMap,
          input, call, calls>>

----------------------------------------------------------------------------
(* Bounds of the model *)

MaxFeatures == 2
MaxMembers == 3
MaxRings == 3
MaxLineWidth == 8
MaxCalls == 1
MaxConversions == 2
MaxImages == 2

----------------------------------------------------------------------------
(* JavaScript values *)

Null == [kind |-> "null"]
Undefined == [kind |-> "undefined"]
Error(msg) == [kind |-> "Error", message |-> msg]
Array(s) == [kind |-> "Array", items |-> s]

IsError(v) == v.kind = "Error"
isDef(v) == v.kind # "undefined"
isNull(v) == v.kind = "null"
isDefAndNotNull(v) == v.kind \notin {"undefined", "null"}
\* ToBoolean of the values used here: objects and arrays are truthy
Truthy(v) == v.kind \notin {"undefined", "null"}

Images == 1..MaxImages
LayerId == "layer"

----------------------------------------------------------------------------
(* OpenLayers styles *)

Fill(c) == [kind |-> "Fill", color |-> c]
Stroke(c, w, d) == [kind |-> "Stroke", color |-> c, width |-> w, lineDash |-> d]
Text(t) == [kind |-> "Text", text |-> t]
ImageStyle(img) == [kind |-> "ImageStyle", image |-> img]
Style(f, s, i, t) == [kind |-> "Style", fill |-> f, stroke |-> s, image |-> i, text |-> t]

HTMLCanvasElement == [kind |-> "HTMLCanvasElement"]
HTMLVideoElement == [kind |-> "HTMLVideoElement"]
Image(i) == [kind |-> "Image", id |-> i]

----------------------------------------------------------------------------
(* OpenLayers geometries.  Coordinates are abstract: a point or a ring is   *)
(* identified by a number.                                                  *)

Point(k) == [kind |-> "Geometry", type |-> "Point", coordinates |-> k, projection |-> "source"]
LineString(k) == [kind |-> "Geometry", type |-> "LineString", coordinates |-> k, projection |-> "source"]
Circle(k) == [kind |-> "Geometry", type |-> "Circle", coordinates |-> k, projection |-> "source"]
LinearRing(k) == [kind |-> "Geometry", type |-> "LinearRing", coordinates |-> k, projection |-> "source"]
\* rings: the sequence of linear rings, the outer boundary first
Polygon(rings) == [kind |-> "Geometry", type |-> "Polygon", rings |-> rings, projection |-> "source"]
MultiPoint(ks) == [kind |-> "Geometry", type |-> "MultiPoint", coordinates |-> ks, projection |-> "source"]
MultiLineString(ks) == [kind |-> "Geometry", type |-> "MultiLineString", coordinates |-> ks, projection |-> "source"]
\* polygons: a sequence of ring sequences
MultiPolygon(ps) == [kind |-> "Geometry", type |-> "MultiPolygon", polygons |-> ps, projection |-> "source"]
GeometryCollection(gs) == [kind |-> "Geometry", type |-> "GeometryCollection", geometries |-> gs]
\* a geometry kind the converter does not know
Triangle(k) == [kind |-> "Geometry", type |-> "Triangle", coordinates |-> k, projection |-> "source"]

\* olcs.core.olGeometryCloneTo4326: a copy of the geometry in EPSG:4326
olGeometryCloneTo4326(geometry, projection) ==
  [geometry EXCEPT !.projection = "EPSG:4326"]

\* olcs.core.ol4326CoordinateToCesiumCartesian and its array form
ol4326CoordinateToCesiumCartesian(k) == [kind |-> "Cartesian3", of |-> k]

\* olcs.core.convertColorToCesium
convertColorToCesium(olColor) == [kind |-> "Color", css |-> olColor]

----------------------------------------------------------------------------
(* Cesium renderables *)

LayerRef(l) == [kind |-> "Layer", id |-> l.id]
FeatureRef(f) == [kind |-> "Feature", uid |-> f.uid]

\* new Cesium.Primitive(options): no picking reference yet
Primitive(geometry, appearance) ==
  [kind |-> "Primitive", geometry |-> geometry, appearance |-> appearance,
   olLayer |-> Undefined, olFeature |-> Undefined]

PrimitiveCollection(items) == [kind |-> "PrimitiveCollection", items |-> items]

\* PrimitiveCollection.add
CollectionAdd(collection, p) == [collection EXCEPT !.items = Append(@, p)]

setReferenceForPicking(l, feature, primitive) ==
  [primitive EXCEPT !.olLayer = LayerRef(l), !.olFeature = FeatureRef(feature)]

createColoredPrimitive(l, feature, geometry, color, opt_lineWidth) ==
  LET renderState == IF isDef(opt_lineWidth)
                     THEN [depthTest |-> TRUE, lineWidth |-> opt_lineWidth]
                     ELSE [depthTest |-> TRUE]
      appearance == [type |-> "PerInstanceColorAppearance", flat |-> TRUE,
                     renderState |-> renderState, color |-> color]
      primitive == Primitive(geometry, appearance)
  IN setReferenceForPicking(l, feature, primitive)

extractColorFromOlStyle(style, outline) ==
  LET fillColor == IF Truthy(style.fill) THEN style.fill.color ELSE ""
      strokeColor == IF Truthy(style.stroke) THEN style.stroke.color ELSE ""
      olColor == IF strokeColor # "" /\ outline THEN strokeColor
                 ELSE IF fillColor # "" THEN fillColor
                 ELSE "black"
  IN convertColorToCesium(olColor)

\* Math.min
Min(a, b) == IF a <= b THEN a ELSE b

\* extractLineWidthFromOlStyle without the clamp to the scene's maximum
extractLineWidthUnclamped(style) ==
  IF Truthy(style.stroke) THEN style.stroke.width ELSE 1

extractLineWidthFromOlStyle(style) ==
  LET width == IF Truthy(style.stroke) THEN style.stroke.width ELSE 1
  IN Min(width, scene.maximumAliasedLineWidth)

Number(n) == [kind |-> "number", value |-> n]

\* wrapFillAndOutlineGeometries creating the outline only when there is no fill
wrapFillElseOutline(l, feature, fillGeometry, outlineGeometry, olStyle) ==
  IF Truthy(olStyle.fill)
  THEN PrimitiveCollection(<<createColoredPrimitive(l, feature, fillGeometry,
           extractColorFromOlStyle(olStyle, FALSE), Undefined)>>)
  ELSE IF Truthy(olStyle.stroke)
  THEN PrimitiveCollection(<<createColoredPrimitive(l, feature, outlineGeometry,
           extractColorFromOlStyle(olStyle, TRUE),
           Number(extractLineWidthFromOlStyle(olStyle)))>>)
  ELSE PrimitiveCollection(<<>>)

wrapFillAndOutlineGeometries(l, feature, fillGeometry, outlineGeometry, olStyle) ==
  LET fillColor == extractColorFromOlStyle(olStyle, FALSE)
      outlineColor == extractColorFromOlStyle(olStyle, TRUE)
      p0 == PrimitiveCollection(<<>>)
      p1 == IF Truthy(olStyle.fill)
            THEN CollectionAdd(p0, createColoredPrimitive(l, feature, fillGeometry,
                                                          fillColor, Undefined))
            ELSE p0
      p2 == IF Truthy(olStyle.stroke)
            THEN CollectionAdd(p1, createColoredPrimitive(l, feature, outlineGeometry,
                     outlineColor, Number(extractLineWidthFromOlStyle(olStyle))))
            ELSE p1
  IN p2

\* The label collection of a style's text component; the label carries the
\* picking reference, the LabelCollection itself does not.
olGeometry4326TextPartToCesium(l, feature, geometry, style) ==
  LET options == [kind |-> "Label", text |-> style.text,
                  olLayer |-> Undefined, olFeature |-> Undefined]
      lbl == setReferenceForPicking(l, feature, options)
  IN [kind |-> "LabelCollection", items |-> <<lbl>>]

addTextStyle(l, feature, geometry, style, primitive) ==
  LET primitives == IF primitive.kind # "PrimitiveCollection"
                    THEN CollectionAdd(PrimitiveCollection(<<>>), primitive)
                    ELSE primitive
  IN IF ~Truthy(style.text)
     THEN primitives
     ELSE LET label == olGeometry4326TextPartToCesium(l, feature, geometry, style.text)
          IN IF Truthy(label) THEN CollectionAdd(primitives, label) ELSE primitives

\* olStyleToCesium testing the fill for either side
olStyleToCesiumFillOnly(feature, style, outline) ==
  IF ~Truthy(style.fill)
  THEN Null
  ELSE [kind |-> "Material", type |-> "Color",
        color |-> convertColorToCesium(style.fill.color)]

olStyleToCesium(feature, style, outline) ==
  LET fill == style.fill
      stroke == style.stroke
  IN IF (outline /\ ~Truthy(stroke)) \/ (~outline /\ ~Truthy(fill))
     THEN Null
     ELSE LET color == convertColorToCesium(IF outline THEN stroke.color ELSE fill.color)
          IN IF outline /\ Truthy(stroke.lineDash)
             THEN [kind |-> "Material", type |-> "Stripe", color |-> color]
             ELSE [kind |-> "Material", type |-> "Color", color |-> color]

----------------------------------------------------------------------------
(* Geometry converters *)

olCircleGeometryToCesium(l, feature, olGeometry, projection, olStyle) ==
  LET geom == olGeometryCloneTo4326(olGeometry, projection)
      center == ol4326CoordinateToCesiumCartesian(geom.coordinates)
      fillGeometry == [type |-> "CircleGeometry", center |-> center]
      outlineGeometry == [type |-> "CircleOutlineGeometry", center |-> center]
      primitives == wrapFillAndOutlineGeometries(l, feature, fillGeometry,
                                                 outlineGeometry, olStyle)
  IN addTextStyle(l, feature, geom, olStyle, primitives)

olLineStringGeometryToCesium(l, feature, olGeometry, projection, olStyle) ==
  LET geom == olGeometryCloneTo4326(olGeometry, projection)
      positions == ol4326CoordinateToCesiumCartesian(geom.coordinates)
      appearance == [type |-> "PolylineMaterialAppearance",
                     material |-> olStyleToCesium(feature, olStyle, TRUE)]
      outlineGeometry == [type |-> "PolylineGeometry", positions |-> positions,
                          width |-> extractLineWidthFromOlStyle(olStyle)]
      outlinePrimitive == setReferenceForPicking(l, feature,
                              Primitive(outlineGeometry, appearance))
  IN addTextStyle(l, feature, geom, olStyle, outlinePrimitive)

(* The polygon hierarchy is built in place: nodes is the heap of hierarchy  *)
(* objects (nodes[1] is the object created first), holes the index of the   *)
(* object a node's holes property refers to (0: no such property), cur the  *)
(* object the variable hierarchy refers to after the rings seen so far.     *)
RECURSIVE HierarchyLoop(_, _, _)
HierarchyLoop(rings, i, h) ==
  IF i > Len(rings) THEN h
  ELSE LET positions == ol4326CoordinateToCesiumCartesian(rings[i])
       IN IF i = 1
          THEN HierarchyLoop(rings, i + 1,
                 [h EXCEPT !.nodes[h.cur].positions = positions])
          ELSE LET new == Len(h.nodes) + 1
               IN HierarchyLoop(rings, i + 1,
                    [nodes |-> Append([h.nodes EXCEPT ![h.cur].holes = new],
                                      [positions |-> positions, holes |-> 0]),
                     cur |-> new])

\* The object graph reachable from node n, as a nested value
RECURSIVE Deref(_, _)
Deref(nodes, n) ==
  IF n = 0 THEN Undefined
  ELSE [kind |-> "Hierarchy", positions |-> nodes[n].positions,
        holes |-> Deref(nodes, nodes[n].holes)]

\* The hierarchy object handed to PolygonOutlineGeometry: the variable
\* hierarchy as the loop leaves it
OutlineHierarchy(h) == h.cur

\* The hierarchy object handed to PolygonGeometry: polygonHierarchy, the
\* object created first
FillHierarchy(h) == 1

olPolygonGeometryToCesium(l, feature, olGeometry, projection, olStyle) ==
  LET geom == olGeometryCloneTo4326(olGeometry, projection)
      rings == geom.rings
      h0 == [nodes |-> <<[positions |-> Undefined, holes |-> 0]>>, cur |-> 1]
      h == HierarchyLoop(rings, 1, h0)
      fillGeometry == [type |-> "PolygonGeometry",
                       polygonHierarchy |-> Deref(h.nodes, FillHierarchy(h))]
      outlineGeometry == [type |-> "PolygonOutlineGeometry",
                          polygonHierarchy |-> Deref(h.nodes, OutlineHierarchy(h))]
      primitives == wrapFillAndOutlineGeometries(l, feature, fillGeometry,
                                                 outlineGeometry, olStyle)
  IN addTextStyle(l, feature, geom, olStyle, primitives)

----------------------------------------------------------------------------
(* Points and billboards *)

Uids == 1..MaxFeatures

\* An OlFeatureToCesiumContext: the projection, the billboard collection and
\* the map from feature uid to billboard
NewContext(proj) ==
  [projection |-> proj, billboards |-> <<>>,
   featureToCesiumMap |-> [u \in Uids |-> Undefined]]

\* BillboardCollection.add followed by setReferenceForPicking; billboards is
\* the index of the context that owns the collection
csAddBillboard(w, billboards, bbOptions, l, feature, geometry, style) ==
  LET bb0 == [kind |-> "Billboard", image |-> bbOptions.image,
              position |-> bbOptions.position,
              index |-> Len(w.contexts[billboards].billboards) + 1,
              olLayer |-> Undefined, olFeature |-> Undefined]
      bb == setReferenceForPicking(l, feature, bb0)
  IN [ret |-> bb,
      w |-> [w EXCEPT !.contexts[billboards].billboards = Append(@, bb)]]

\* The callback keeping the entry the map already has for the feature
newBillboardAddedCallbackKeepFirst(w, cb, bb) ==
  IF w.contexts[cb.context].featureToCesiumMap[cb.feature.uid] = Undefined
  THEN [w EXCEPT !.contexts[cb.context].featureToCesiumMap[cb.feature.uid] = bb]
  ELSE w

\* The closure olFeatureToCesium hands down as opt_newBillboardCallback
newBillboardAddedCallback(w, cb, bb) ==
  [w EXCEPT !.contexts[cb.context].featureToCesiumMap[cb.feature.uid] = bb]

\* cl: what the closure captured (image, geometry, layer, feature, style,
\* billboards, opt_newBillboardCallback)
reallyCreateBillboard(w, cl) ==
  IF isNull(cl.image) THEN w
  ELSE IF cl.image.kind \notin {"HTMLCanvasElement", "Image"} THEN w
  ELSE LET position == ol4326CoordinateToCesiumCartesian(cl.geometry.coordinates)
           bbOptions == [image |-> cl.image, position |-> position]
           added == csAddBillboard(w, cl.billboards, bbOptions, cl.layer, cl.feature,
                                   cl.geometry, cl.style)
       IN IF Truthy(cl.callback)
          THEN newBillboardAddedCallback(added.w, cl.callback, added.ret)
          ELSE added.w

\* isImageLoaded finding no image loaded
isImageLoadedNever(image) == FALSE

isImageLoaded(image) == complete[image.id]

\* olPointGeometryToCesium creating the billboard at once, loaded image or not
olPointGeometryToCesiumEager(w, l, feature, geometry, projection, style, billboards, opt_newBillboardCallback) ==
  LET geom == olGeometryCloneTo4326(geometry, projection)
  IN IF ~Truthy(style.image)
     THEN [ret |-> Error("TypeError"), w |-> w]
     ELSE
       LET cl == [image |-> style.image.image, geometry |-> geom,
                  layer |-> LayerRef(l), feature |-> FeatureRef(feature),
                  style |-> style, billboards |-> billboards,
                  callback |-> opt_newBillboardCallback]
           w1 == reallyCreateBillboard(w, cl)
       IN IF Truthy(style.text)
          THEN [ret |-> addTextStyle(l, feature, geom, style,
                                     Primitive(Undefined, Undefined)),
                w |-> w1]
          ELSE [ret |-> Null, w |-> w1]

olPointGeometryToCesium(w, l, feature, geometry, projection, style, billboards, opt_newBillboardCallback) ==
  LET geom == olGeometryCloneTo4326(geometry, projection)
      imageStyle == style.image
  IN IF ~Truthy(imageStyle)
     THEN [ret |-> Error("TypeError"), w |-> w]   \* imageStyle.getImage of null
     ELSE
       LET image == imageStyle.image
           cl == [image |-> image, geometry |-> geom, layer |-> LayerRef(l),
                  feature |-> FeatureRef(feature), style |-> style,
                  billboards |-> billboards, callback |-> opt_newBillboardCallback]
           w1 == IF image.kind = "Image" /\ ~isImageLoaded(image)
                 THEN [w EXCEPT !.listeners = Append(@, cl)]
                 ELSE reallyCreateBillboard(w, cl)
       IN IF Truthy(style.text)
          THEN [ret |-> addTextStyle(l, feature, geom, style,
                                     Primitive(Undefined, Undefined)),
                w |-> w1]
          ELSE [ret |-> Null, w |-> w1]

\* The MultiPoint branch for a style with text: each point converted in turn,
\* the non-null results collected
RECURSIVE MultiPointForEach(_, _, _, _, _, _, _, _, _)
MultiPointForEach(acc, ks, i, l, feature, projection, olStyle, billboards, cb) ==
  IF i > Len(ks) \/ IsError(acc.ret) THEN acc
  ELSE LET r == olPointGeometryToCesium(acc.w, l, feature, Point(ks[i]), projection,
                                        olStyle, billboards, cb)
       IN MultiPointForEach(
            IF IsError(r.ret) THEN r
            ELSE [ret |-> IF Truthy(r.ret) THEN CollectionAdd(acc.ret, r.ret)
                          ELSE acc.ret,
                  w |-> r.w],
            ks, i + 1, l, feature, projection, olStyle, billboards, cb)

\* The MultiPoint branch for a style without text: the function handed to
\* forEach is not bound, so its this is not the converter and the call of
\* this.olPointGeometryToCesium raises at the first point
MultiPointForEachUnbound(w, ks, l, feature, projection, olStyle, billboards, cb) ==
  IF Len(ks) > 0
  THEN [ret |-> Error("TypeError"), w |-> w]
  ELSE [ret |-> Null, w |-> w]

olMultiGeometryToCesium(w, l, feature, geometry, projection, olStyle, billboards, opt_newBillboardCallback) ==
  CASE geometry.type = "MultiPoint" ->
         IF Truthy(olStyle.text)
         THEN MultiPointForEach([ret |-> PrimitiveCollection(<<>>), w |-> w],
                geometry.coordinates, 1, l, feature, projection, olStyle,
                billboards, opt_newBillboardCallback)
         ELSE MultiPointForEachUnbound(w, geometry.coordinates, l, feature,
                projection, olStyle, billboards, opt_newBillboardCallback)
    [] geometry.type = "MultiLineString" ->
         [ret |-> PrimitiveCollection(
                    [i \in 1..Len(geometry.coordinates) |->
                       olLineStringGeometryToCesium(l, feature,
                         LineString(geometry.coordinates[i]), projection, olStyle)]),
          w |-> w]
    [] geometry.type = "MultiPolygon" ->
         [ret |-> PrimitiveCollection(
                    [i \in 1..Len(geometry.polygons) |->
                       olPolygonGeometryToCesium(l, feature,
                         Polygon(geometry.polygons[i]), projection, olStyle)]),
          w |-> w]
    \* goog.asserts.fail; olFeatureToCesium calls with the three kinds above only
    [] OTHER -> [ret |-> Error("AssertionError"), w |-> w]

----------------------------------------------------------------------------
(* Style resolution and the orchestrators *)

\* A style function is modelled by the value it yields
Function(result) == [kind |-> "Function", result |-> result]

computePlainStyle(l, feature, fallbackStyle, resolution) ==
  LET featureStyle == feature.styleFunction
      style0 == IF isDef(featureStyle) THEN featureStyle.result ELSE Undefined
      style == IF ~isDefAndNotNull(style0) /\ isDefAndNotNull(fallbackStyle)
               THEN fallbackStyle.result
               ELSE style0
  IN IF ~isDef(style) THEN Null
     \* assert(isArray(style)) fails; without assertions style[0] of null raises
     ELSE IF style.kind # "Array" THEN Error("TypeError")
     ELSE IF Len(style.items) = 0 THEN Undefined
     ELSE style.items[1]

RECURSIVE olFeatureToCesium(_, _, _, _, _, _)
RECURSIVE CollectionForEach(_, _, _, _, _, _, _)

\* The GeometryCollection branch adding every result, null or not
RECURSIVE CollectionForEachAddAll(_, _, _, _, _, _, _)
CollectionForEachAddAll(acc, gs, i, l, feature, style, context) ==
  IF i > Len(gs) \/ IsError(acc.ret) THEN acc
  ELSE IF ~Truthy(gs[i])
  THEN CollectionForEachAddAll(acc, gs, i + 1, l, feature, style, context)
  ELSE LET r == olFeatureToCesium(acc.w, l, feature, style, context, gs[i])
       IN CollectionForEachAddAll(
            IF IsError(r.ret) THEN r
            ELSE [ret |-> CollectionAdd(acc.ret, r.ret), w |-> r.w],
            gs, i + 1, l, feature, style, context)

\* The GeometryCollection branch: each non-null member converted through
\* olFeatureToCesium, the non-null results collected
CollectionForEach(acc, gs, i, l, feature, style, context) ==
  IF i > Len(gs) \/ IsError(acc.ret) THEN acc
  ELSE IF ~Truthy(gs[i])
  THEN CollectionForEach(acc, gs, i + 1, l, feature, style, context)
  ELSE LET r == olFeatureToCesium(acc.w, l, feature, style, context, gs[i])
       IN CollectionForEach(
            IF IsError(r.ret) THEN r
            ELSE [ret |-> IF Truthy(r.ret) THEN CollectionAdd(acc.ret, r.ret)
                          ELSE acc.ret,
                  w |-> r.w],
            gs, i + 1, l, feature, style, context)

\* context: the index of the context object in w.contexts
olFeatureToCesium(w, l, feature, style, context, opt_geom) ==
  LET geom == IF Truthy(opt_geom) THEN opt_geom ELSE feature.geometry
      proj == w.contexts[context].projection
      cb == [kind |-> "Function", context |-> context, feature |-> FeatureRef(feature)]
  IN IF ~Truthy(geom) THEN [ret |-> Null, w |-> w]
     ELSE CASE geom.type = "GeometryCollection" ->
                 CollectionForEach([ret |-> PrimitiveCollection(<<>>), w |-> w],
                                   geom.geometries, 1, l, feature, style, context)
            [] geom.type = "Point" ->
                 olPointGeometryToCesium(w, l, feature, geom, proj, style, context, cb)
            [] geom.type = "Circle" ->
                 [ret |-> olCircleGeometryToCesium(l, feature, geom, proj, style), w |-> w]
            [] geom.type = "LineString" ->
                 [ret |-> olLineStringGeometryToCesium(l, feature, geom, proj, style),
                  w |-> w]
            [] geom.type = "Polygon" ->
                 [ret |-> olPolygonGeometryToCesium(l, feature, geom, proj, style),
                  w |-> w]
            [] geom.type \in {"MultiPoint", "MultiLineString", "MultiPolygon"} ->
                 olMultiGeometryToCesium(w, l, feature, geom, proj, style, context, cb)
            [] geom.type = "LinearRing" ->
                 [ret |-> Error("LinearRing should only be part of polygon."), w |-> w]
            [] OTHER -> [ret |-> Error("Ol geom type not handled"), w |-> w]


\* new olcs.core.OlLayerPrimitive(proj, scene): a primitive collection that
\* owns a fresh conversion context (context: its index in w.contexts)
OlLayerPrimitive(context) ==
  [kind |-> "OlLayerPrimitive", context |-> context, items |-> <<>>]

\* The loop of olVectorLayerToCesium leaving at the first feature it skips
RECURSIVE LayerLoopBreak(_, _, _, _, _, _)
LayerLoopBreak(acc, features, i, olLayer, resolution, context) ==
  IF i > Len(features) \/ IsError(acc.ret) THEN acc
  ELSE LET feature == features[i]
       IN IF ~isDefAndNotNull(feature) THEN acc
          ELSE
            LET style == computePlainStyle(olLayer, feature, olLayer.styleFunction,
                                           resolution)
            IN IF IsError(style) THEN [acc EXCEPT !.ret = style]
               ELSE IF ~Truthy(style) THEN acc
               ELSE
                 LET r == olFeatureToCesium(acc.w, olLayer, feature, style, context,
                                            Undefined)
                 IN IF IsError(r.ret) THEN [acc EXCEPT !.ret = r.ret, !.w = r.w]
                    ELSE IF ~Truthy(r.ret) THEN [acc EXCEPT !.w = r.w]
                    ELSE LayerLoopBreak(
                           [ret |-> CollectionAdd(acc.ret, r.ret),
                            w |-> r.w,
                            map |-> [acc.map EXCEPT ![feature.uid] = r.ret]],
                           features, i + 1, olLayer, resolution, context)

\* The loop of olVectorLayerToCesium over the source's features from i on;
\* acc: the collection so far (or the error raised), the world and the map
RECURSIVE LayerLoop(_, _, _, _, _, _)
LayerLoop(acc, features, i, olLayer, resolution, context) ==
  IF i > Len(features) \/ IsError(acc.ret) THEN acc
  ELSE LET feature == features[i]
       IN IF ~isDefAndNotNull(feature)
          THEN LayerLoop(acc, features, i + 1, olLayer, resolution, context)
          ELSE
            LET layerStyle == olLayer.styleFunction
                style == computePlainStyle(olLayer, feature, layerStyle, resolution)
            IN IF IsError(style)
               THEN [acc EXCEPT !.ret = style]
               ELSE IF ~Truthy(style)
               THEN LayerLoop(acc, features, i + 1, olLayer, resolution, context)
               ELSE
                 LET r == olFeatureToCesium(acc.w, olLayer, feature, style, context,
                                            Undefined)
                     primitives == r.ret
                 IN IF IsError(primitives)
                    THEN [acc EXCEPT !.ret = primitives, !.w = r.w]
                    ELSE IF ~Truthy(primitives)
                    THEN LayerLoop([acc EXCEPT !.w = r.w], features, i + 1, olLayer,
                                   resolution, context)
                    ELSE LayerLoop(
                           [ret |-> CollectionAdd(acc.ret, primitives),
                            w |-> r.w,
                            map |-> [acc.map EXCEPT ![feature.uid] = primitives]],
                           features, i + 1, olLayer, resolution, context)

olVectorLayerToCesium(w, olLayer, olView, map) ==
  LET features == olLayer.source
      proj == olView.projection
      resolution == olView.resolution
  IN IF ~isDef(resolution) \/ ~Truthy(proj)
     THEN [ret |-> Error("View not ready"), w |-> w, map |-> map]
     ELSE LET context == Len(w.contexts) + 1
              w1 == [w EXCEPT !.contexts = Append(@, NewContext(proj))]
              allPrimitives == OlLayerPrimitive(context)
          IN LayerLoop([ret |-> allPrimitives, w |-> w1, map |-> map],
                       features, 1, olLayer, resolution, context)

convert(w, l, view, feature, context) ==
  LET proj == view.projection
      resolution == view.resolution
  IN IF ~isDef(resolution) \/ ~Truthy(proj)
     THEN [ret |-> Null, w |-> w]
     ELSE LET layerStyle == l.styleFunction
              style == computePlainStyle(l, feature, layerStyle, resolution)
          IN IF IsError(style) THEN [ret |-> style, w |-> w]
             ELSE IF ~Truthy(style) THEN [ret |-> Null, w |-> w]
             ELSE olFeatureToCesium(
                    [w EXCEPT !.contexts[context].projection = proj],
                    l, feature, style, context, Undefined)

\* The image's 'load' event runs the one-shot listeners registered on the
\* image, in registration order; ls: those listeners
RECURSIVE FireListeners(_, _)
FireListeners(w, ls) ==
  IF ls = <<>> THEN w
  ELSE FireListeners(reallyCreateBillboard(w, Head(ls)), Tail(ls))

----------------------------------------------------------------------------
(* Inputs *)

RECURSIVE Iota(_)
Iota(n) == IF n = 0 THEN <<>> ELSE Append(Iota(n - 1), n)

Dash == Array(<<4, 4>>)
NoDash == Array(<<>>)

FillOnly == Style(Fill("red"), Null, Null, Null)
StrokeOnly == Style(Null, Stroke("blue", 2, Null), Null, Null)
FillAndStroke == Style(Fill("red"), Stroke("blue", 2, Null), Null, Null)

\* The styles of the single-feature conversions
FeatureStyles ==
  { Style(f, s, i, t) :
      f \in {Null, Fill("red")},
      s \in {Null, Stroke("blue", 2, Null), Stroke("blue", 50, Dash)},
      i \in {Null, ImageStyle(Null), ImageStyle(Undefined),
             ImageStyle(HTMLCanvasElement), ImageStyle(HTMLVideoElement)}
             \cup {ImageStyle(Image(n)) : n \in Images},
      t \in {Null, Text("name")} }

\* The polygon number p with n rings
Rings(p, n) == [j \in 1..n |-> 10 * p + j]

FeatureGeometries ==
  {Null, Point(1), LineString(1), Circle(1), LinearRing(1), Triangle(1)}
  \cup {Polygon(Rings(1, n)) : n \in 1..MaxRings}
  \cup {MultiPoint(Iota(n)) : n \in 0..MaxMembers}
  \cup {MultiLineString(Iota(n)) : n \in 0..MaxMembers}
  \cup {MultiPolygon([p \in 1..n |-> Rings(p, r)]) : n \in 0..MaxMembers, r \in 1..2}
  \cup {GeometryCollection(gs) :
          gs \in {<<>>, <<Point(1), Null, LineString(2)>>, <<Point(1), Point(2)>>,
                  <<GeometryCollection(<<Point(1), Polygon(Rings(1, 2))>>), Point(2)>>,
                  <<MultiPoint(Iota(2)), Circle(3)>>,
                  <<LineString(1), LinearRing(2), Point(3)>>,
                  <<Circle(1), Triangle(2)>>}}

Feature(uid, geometry, styleFunction) ==
  [kind |-> "Feature", uid |-> uid, geometry |-> geometry,
   styleFunction |-> styleFunction]

Layer(source, styleFunction) ==
  [kind |-> "Layer", id |-> LayerId, source |-> source, styleFunction |-> styleFunction]

View(projection, resolution) == [projection |-> projection, resolution |-> resolution]

Projection(code) == [kind |-> "Projection", code |-> code]

Views == {View(Projection("EPSG:3857"), Number(1)),
          View(Projection("EPSG:3857"), Undefined),
          View(Null, Number(1))}

\* The image of the icon of feature u
IconOf(u) == Image(((u - 1) % MaxImages) + 1)

\* The features a layer's source may hold at position u
SourceFeatures(u) ==
  { Feature(u, Point(u), Function(Array(<<Style(Null, Null, ImageStyle(IconOf(u)), Text("name"))>>))),
    Feature(u, Point(u), Function(Array(<<Style(Null, Null, ImageStyle(HTMLCanvasElement), Null)>>))),
    Feature(u, LineString(u), Undefined),
    Feature(u, LineString(u), Function(Null)),
    Feature(u, Null, Function(Array(<<StrokeOnly>>))),
    Feature(u, Polygon(Rings(u, 2)), Function(Array(<<FillOnly, FillAndStroke>>))) }

\* The sources of n features: the feature at position u has uid u, or is null
RECURSIVE SourcesOfLen(_)
SourcesOfLen(n) ==
  IF n = 0 THEN {<<>>}
  ELSE { Append(s, f) : s \in SourcesOfLen(n - 1), f \in SourceFeatures(n) \cup {Null} }

Sources == UNION { SourcesOfLen(n) : n \in 0..MaxFeatures }

LayerStyleFunctions == {Undefined, Function(Null), Function(Array(<<StrokeOnly, FillOnly>>))}

Layers == { Layer(s, f) : s \in Sources, f \in LayerStyleFunctions }

----------------------------------------------------------------------------
(* The layer conversion, the single-feature update and the image loads *)

W == [contexts |-> contexts, listeners |-> listeners]

NoCall == [op |-> "none"]

Init ==
  /\ layer \in Layers
  /\ scene = [maximumAliasedLineWidth |-> MaxLineWidth]
  /\ complete = [i \in Images |-> FALSE]
  /\ contexts = <<NewContext(Projection("EPSG:4326"))>>  \* a context of the caller
  /\ listeners = <<>>
  /\ featurePrimitiveMap = [u \in Uids |-> Undefined]
  /\ input = Undefined
  /\ call = NoCall
  /\ calls = 0

OlVectorLayerToCesium ==
  \E view \in Views :
    /\ calls < MaxCalls
    /\ LET r == olVectorLayerToCesium(W, layer, view, featurePrimitiveMap)
       IN /\ contexts' = r.w.contexts
          /\ listeners' = r.w.listeners
          /\ featurePrimitiveMap' = r.map
          /\ call' = [op |-> "olVectorLayerToCesium", view |-> view, ret |-> r.ret]
    /\ calls' = calls + 1
    /\ UNCHANGED <<layer, scene, complete, input>>

Convert ==
  \E view \in Views, u \in 1..Len(layer.source), context \in 1..Len(contexts) :
    /\ calls < MaxCalls
    /\ layer.source[u] # Null
    /\ LET r == convert(W, layer, view, layer.source[u], context)
       IN /\ contexts' = r.w.contexts
          /\ listeners' = r.w.listeners
          /\ call' = [op |-> "convert", view |-> view, feature |-> u,
                      context |-> context, ret |-> r.ret]
    /\ calls' = calls + 1
    /\ UNCHANGED <<layer, scene, complete, featurePrimitiveMap, input>>

ImageLoad ==
  \E i \in Images :
    /\ ~complete[i]
    /\ complete' = [complete EXCEPT ![i] = TRUE]
    /\ LET fired == SelectSeq(listeners, LAMBDA cl : cl.image.id = i)
           rest == SelectSeq(listeners, LAMBDA cl : cl.image.id # i)
           w1 == FireListeners([contexts |-> contexts, listeners |-> rest], fired)
       IN /\ contexts' = w1.contexts
          /\ listeners' = w1.listeners
    /\ UNCHANGED <<layer, scene, featurePrimitiveMap, input, call, calls>>

Next == OlVectorLayerToCesium \/ Convert \/ ImageLoad

Spec == Init /\ [][Next]_vars

----------------------------------------------------------------------------
(* Single-feature conversions: olFeatureToCesium called on one feature,    *)
(* with a style already resolved, against a context of the caller          *)

InitFeature ==
  /\ layer = Layer(<<>>, Undefined)
  /\ scene = [maximumAliasedLineWidth |-> MaxLineWidth]
  /\ complete = [i \in Images |-> FALSE]
  /\ contexts = <<NewContext(Projection("EPSG:3857"))>>
  /\ listeners = <<>>
  /\ featurePrimitiveMap = [u \in Uids |-> Undefined]
  /\ input \in { [kind |-> "conversion", feature |-> Feature(1, g, Undefined),
                  style |-> s] : g \in FeatureGeometries, s \in FeatureStyles }
  /\ call = NoCall
  /\ calls = 0

OlFeatureToCesium ==
  /\ calls < MaxConversions
  /\ input.kind = "conversion"
  /\ LET r == olFeatureToCesium(W, layer, input.feature, input.style, 1, Undefined)
     IN /\ contexts' = r.w.contexts
        /\ listeners' = r.w.listeners
        /\ call' = [op |-> "olFeatureToCesium", loaded |-> complete, ret |-> r.ret]
  /\ calls' = calls + 1
  /\ UNCHANGED <<layer, scene, complete, featurePrimitiveMap, input>>

NextFeature == OlFeatureToCesium \/ ImageLoad

SpecFeature == InitFeature /\ [][NextFeature]_vars

----------------------------------------------------------------------------
(* The style extractors and the style resolution, called on their own *)

StrokeWidths == {1, 2, MaxLineWidth, MaxLineWidth + 1, 50}

ExtractorStyles ==
  { Style(f, s, Null, Null) :
      f \in {Null, Fill("red")},
      s \in {Null} \cup { Stroke("blue", w, d) :
                            w \in StrokeWidths, d \in {Null, NoDash, Dash} } }

TextOnly == Style(Null, Null, Null, Text("name"))

\* What a feature's getStyleFunction may return, by the value the function yields
FeatureStyleFunctions ==
  {Undefined, Function(Undefined), Function(Null), Function(Array(<<>>)),
   Function(Array(<<FillOnly>>)), Function(Array(<<StrokeOnly, FillOnly>>))}

\* What the layer's getStyleFunction may return
FallbackStyleFunctions ==
  {Undefined, Null, Function(Undefined), Function(Null), Function(Array(<<>>)),
   Function(Array(<<TextOnly>>)), Function(Array(<<FillAndStroke, TextOnly>>))}

InitStyle ==
  /\ layer = Layer(<<>>, Undefined)
  /\ scene \in { [maximumAliasedLineWidth |-> m] : m \in 1..MaxLineWidth }
  /\ complete = [i \in Images |-> FALSE]
  /\ contexts = <<>>
  /\ listeners = <<>>
  /\ featurePrimitiveMap = [u \in Uids |-> Undefined]
  /\ input \in
       { [kind |-> "style", style |-> s, outline |-> o] :
           s \in ExtractorStyles, o \in BOOLEAN }
       \cup
       { [kind |-> "plainStyle", feature |-> Feature(1, Point(1), f),
          fallbackStyle |-> g] :
           f \in FeatureStyleFunctions, g \in FallbackStyleFunctions }
  /\ call = NoCall
  /\ calls = 0

ExtractLineWidthFromOlStyle ==
  /\ calls < MaxConversions
  /\ input.kind = "style"
  /\ call' = [op |-> "extractLineWidthFromOlStyle",
              ret |-> Number(extractLineWidthFromOlStyle(input.style))]
  /\ calls' = calls + 1
  /\ UNCHANGED <<layer, scene, complete, contexts, listeners, featurePrimitiveMap, input>>

OlStyleToCesium ==
  /\ calls < MaxConversions
  /\ input.kind = "style"
  /\ call' = [op |-> "olStyleToCesium",
              ret |-> olStyleToCesium(Undefined, input.style, input.outline)]
  /\ calls' = calls + 1
  /\ UNCHANGED <<layer, scene, complete, contexts, listeners, featurePrimitiveMap, input>>

ComputePlainStyle ==
  /\ calls < MaxConversions
  /\ input.kind = "plainStyle"
  /\ call' = [op |-> "computePlainStyle",
              ret |-> computePlainStyle(layer, input.feature, input.fallbackStyle,
                                        Number(1))]
  /\ calls' = calls + 1
  /\ UNCHANGED <<layer, scene, complete, contexts, listeners, featurePrimitiveMap, input>>

NextStyle == ExtractLineWidthFromOlStyle \/ OlStyleToCesium \/ ComputePlainStyle

SpecStyle == InitStyle /\ [][NextStyle]_vars

----------------------------------------------------------------------------
(* Claims about the style extractors and the style resolution (SpecStyle) *)

\* What a style function yields: nothing when the function is absent
Yield(fn) == IF isDefAndNotNull(fn) THEN fn.result ELSE Undefined
YieldsList(fn) == Yield(fn).kind = "Array"

\* C8 (as claimed): computePlainStyle returns the first style of the feature
\* function's list if it yields one, else the first style of the fallback's
\* list, and returns null, without raising, whenever neither yields a style.
C8_ComputePlainStyleNeverRaises ==
  call.op = "computePlainStyle" =>
    LET chosen == IF YieldsList(input.feature.styleFunction)
                  THEN Yield(input.feature.styleFunction)
                  ELSE Yield(input.fallbackStyle)
    IN /\ ~IsError(call.ret)
       /\ (chosen.kind = "Array" /\ Len(chosen.items) > 0)
            => call.ret = chosen.items[1]
       /\ chosen.kind # "Array" => call.ret = Null
       /\ (chosen.kind = "Array" /\ Len(chosen.items) = 0) => ~Truthy(call.ret)

\* C9: extractLineWidthFromOlStyle returns min(stroke width, maximum aliased
\* line width), with width 1 for a style without stroke, hence never more than
\* the maximum.
C9_LineWidthClamped ==
  call.op = "extractLineWidthFromOlStyle" =>
    LET width == IF input.style.stroke = Null THEN 1 ELSE input.style.stroke.width
        maximum == scene.maximumAliasedLineWidth
    IN /\ call.ret.value <= maximum
       /\ width <= maximum => call.ret.value = width
       /\ width > maximum => call.ret.value = maximum

C9_Witness ==
  /\ call.op = "extractLineWidthFromOlStyle"
  /\ input.style.stroke # Null
  /\ input.style.stroke.width = 50
  /\ scene.maximumAliasedLineWidth = 8
  /\ call.ret.value = 8

\* C10: olStyleToCesium returns null exactly when the requested side has no
\* style component (outline without stroke, fill without fill); otherwise a
\* material, which is the striped one exactly when the outline is requested and
\* the stroke's line dash is set, and the flat colour one otherwise.
C10_MaterialOrNull ==
  call.op = "olStyleToCesium" =>
    LET style == input.style
        sideAbsent == IF input.outline THEN style.stroke = Null ELSE style.fill = Null
        dashed == input.outline /\ style.stroke # Null /\ style.stroke.lineDash # Null
    IN /\ (call.ret = Null) <=> sideAbsent
       /\ ~sideAbsent =>
            /\ call.ret.kind = "Material"
            /\ (call.ret.type = "Stripe") <=> dashed
            /\ (call.ret.type = "Color") <=> ~dashed

\* a stroke-only style asked for its outline: a material
C10_Witness ==
  /\ call.op = "olStyleToCesium"
  /\ input.style.fill = Null /\ input.style.stroke # Null
  /\ input.style.stroke.lineDash = Dash
  /\ input.outline
  /\ call.ret.kind = "Material" /\ call.ret.type = "Stripe"

----------------------------------------------------------------------------
(* Claims about single-feature conversions (SpecFeature) *)

\* The primitives, labels and billboards reachable from a renderable, in order
RECURSIVE Leaves(_)
RECURSIVE LeavesOfItems(_)
LeavesOfItems(items) ==
  IF items = <<>> THEN <<>> ELSE Leaves(Head(items)) \o LeavesOfItems(Tail(items))
Leaves(r) ==
  IF r.kind \in {"PrimitiveCollection", "LabelCollection", "OlLayerPrimitive"}
  THEN LeavesOfItems(r.items)
  ELSE IF r.kind \in {"Primitive", "Label", "Billboard"} THEN <<r>>
  ELSE <<>>

\* The rings of a polygon hierarchy: the ring of the node and those of its holes
RECURSIVE RingCount(_)
RingCount(h) == IF h = Undefined THEN 0 ELSE 1 + RingCount(h.holes)

Converted == call.op = "olFeatureToCesium"
Geom == input.feature.geometry
HasFill == input.style.fill # Null
HasStroke == input.style.stroke # Null
HasText == input.style.text # Null
Sides == (IF HasFill THEN 1 ELSE 0) + (IF HasStroke THEN 1 ELSE 0)

\* C1 (as claimed): for a Polygon with N holes the outline geometry's hierarchy
\* holds N+1 ring boundaries and the fill geometry's hierarchy the outer ring
\* and N holes.
C1_PolygonRings ==
  (Converted /\ Geom # Null /\ Geom.type = "Polygon" /\ HasFill /\ HasStroke) =>
    LET n == Len(Geom.rings) - 1
        fillG == call.ret.items[1].geometry
        outlineG == call.ret.items[2].geometry
    IN /\ fillG.type = "PolygonGeometry"
       /\ outlineG.type = "PolygonOutlineGeometry"
       /\ RingCount(fillG.polygonHierarchy) = n + 1
       /\ RingCount(fillG.polygonHierarchy.holes) = n
       /\ RingCount(outlineG.polygonHierarchy) = n + 1

\* C3 (as claimed): a MultiPolygon converted with a style without text gives
\* an aggregate whose member count is (number of polygons) x (sides present).
C3_MemberCountIsProduct ==
  (Converted /\ Geom # Null /\ Geom.type = "MultiPolygon" /\ ~HasText) =>
    /\ call.ret.kind = "PrimitiveCollection"
    /\ Len(call.ret.items) = Len(Geom.polygons) * Sides

\* C3 (amended): the aggregate has one member per polygon, in order, each a
\* collection of one primitive per side present; the product is the number
\* of primitives one level down.
C3_MembersPerPolygon ==
  (Converted /\ Geom # Null /\ Geom.type = "MultiPolygon" /\ ~HasText) =>
    /\ call.ret.kind = "PrimitiveCollection"
    /\ Len(call.ret.items) = Len(Geom.polygons)
    /\ \A i \in 1..Len(Geom.polygons) :
         /\ call.ret.items[i].kind = "PrimitiveCollection"
         /\ Len(call.ret.items[i].items) = Sides
         /\ \A j \in 1..Sides : call.ret.items[i].items[j].kind = "Primitive"
    /\ Len(Leaves(call.ret)) = Len(Geom.polygons) * Sides

C3_Witness ==
  /\ Converted /\ Geom # Null /\ Geom.type = "MultiPolygon"
  /\ Len(Geom.polygons) = 3 /\ HasFill /\ HasStroke /\ ~HasText
  /\ Len(call.ret.items) = 3
  /\ Len(Leaves(call.ret)) = 6

\* The supported kinds whose conversion involves no icon
IconlessKinds ==
  {"LineString", "Polygon", "Circle", "MultiLineString", "MultiPolygon"}

\* C4 (as claimed): with a style without fill, stroke and text, the conversion
\* of a geometry of a supported kind raises nothing and returns null or a
\* collection without primitives.  Stated for the kinds that involve no icon,
\* which is where the style's fill, stroke and text alone decide the result.
C4_EmptyStyleNothingRendered ==
  (Converted /\ Geom # Null /\ Geom.type \in IconlessKinds
     /\ ~HasFill /\ ~HasStroke /\ ~HasText) =>
    /\ ~IsError(call.ret)
    /\ call.ret = Null \/ Leaves(call.ret) = <<>>

\* C5 (as claimed): every primitive, label and billboard made by a conversion
\* carries the picking reference to the layer and to the converted feature.
C5_EveryRenderableReferenced ==
  (Converted /\ ~IsError(call.ret)) =>
    LET made == Leaves(call.ret) \o contexts[1].billboards
    IN \A k \in 1..Len(made) :
         /\ made[k].olLayer = LayerRef(layer)
         /\ made[k].olFeature = FeatureRef(input.feature)

\* the icon of the converted style, when it is an Image
IconImage ==
  IF input.style.image # Null /\ input.style.image.image.kind = "Image"
  THEN input.style.image.image.id ELSE 0

BillboardCount == Len(contexts[1].billboards)
PendingOn(i) == SelectSeq(listeners, LAMBDA cl : cl.image.id = i)

C2_Case ==
  /\ input.kind = "conversion" /\ Geom # Null /\ Geom.type = "Point"
  /\ HasText /\ IconImage # 0

\* C2: for a Point feature whose style has text and whose icon image is not
\* loaded, olFeatureToCesium returns a collection holding the label at once;
\* until the image's load event there is no billboard in the container and none
\* in the context's feature map; the load event adds one billboard per pending
\* conversion and records the last in the map under the feature's uid.
C2_LabelNow ==
  (C2_Case /\ Converted /\ ~call.loaded[IconImage]) =>
    /\ call.ret.kind = "PrimitiveCollection"
    /\ \E k \in 1..Len(call.ret.items) :
         /\ call.ret.items[k].kind = "LabelCollection"
         /\ Len(call.ret.items[k].items) = 1

C2_NothingBeforeLoad ==
  (C2_Case /\ ~complete[IconImage]) =>
    /\ contexts[1].billboards = <<>>
    /\ contexts[1].featureToCesiumMap[input.feature.uid] = Undefined

C2_AddedAtLoad ==
  (C2_Case /\ ~complete[IconImage] /\ complete'[IconImage]) =>
    LET pending == Len(PendingOn(IconImage))
        after == contexts'[1].billboards
    IN /\ Len(after) = pending
       /\ \A k \in 1..pending :
            /\ after[k].kind = "Billboard"
            /\ after[k].image = Image(IconImage)
       /\ pending > 0 =>
            contexts'[1].featureToCesiumMap[input.feature.uid] = after[pending]
       /\ listeners' = <<>>

\* C2: the three parts together: the label returned at once, nothing in the
\* billboard container or the feature map before the load event, the billboard
\* added and recorded by the load event.
C2_DeferredBillboard ==
  /\ [](C2_LabelNow /\ C2_NothingBeforeLoad)
  /\ [][C2_AddedAtLoad]_vars

C2_Witness ==
  /\ C2_Case /\ Converted /\ ~call.loaded[IconImage]
  /\ complete[IconImage]
  /\ BillboardCount = 1
  /\ contexts[1].featureToCesiumMap[input.feature.uid] = contexts[1].billboards[1]

----------------------------------------------------------------------------
(* Claims about the layer conversion and the single-feature update (Spec) *)

ViewReady(view) == view.resolution # Undefined /\ view.projection # Null

\* The style the resolution is to find for a feature: the first of the list
\* its own function yields, else the first of the list the layer's yields
ResolvedStyle(f) ==
  LET chosen == IF YieldsList(f.styleFunction) THEN Yield(f.styleFunction)
                ELSE Yield(layer.styleFunction)
  IN IF chosen.kind = "Array" /\ Len(chosen.items) > 0 THEN chosen.items[1]
     ELSE Null

\* What the conversion of the feature at position u of the source is to give:
\* null for a feature that is skipped
Rendered(u) ==
  LET f == layer.source[u]
  IN IF f = Null THEN Null
     ELSE IF f.geometry = Null \/ ResolvedStyle(f) = Null THEN Null
     ELSE olFeatureToCesium(W, layer, f, ResolvedStyle(f), 1, Undefined).ret

RECURSIVE RenderedFrom(_)
RenderedFrom(u) ==
  IF u > Len(layer.source) THEN <<>>
  ELSE (IF Rendered(u) = Null THEN <<>> ELSE <<Rendered(u)>>) \o RenderedFrom(u + 1)

LayerConverted == call.op = "olVectorLayerToCesium" /\ ~IsError(call.ret)

\* C6: when olVectorLayerToCesium returns, the map holds an entry under a
\* feature's uid exactly for the features with a geometry, a resolved style
\* and a non-null conversion result; the entry is that result, and the
\* returned collection holds these results in the order of the source.
C6_MapAndCollection ==
  LayerConverted =>
    /\ \A u \in 1..Len(layer.source) :
         /\ (featurePrimitiveMap[u] # Undefined) <=> (Rendered(u) # Null)
         /\ Rendered(u) # Null => featurePrimitiveMap[u] = Rendered(u)
    /\ \A u \in Uids : u > Len(layer.source) => featurePrimitiveMap[u] = Undefined
    /\ call.ret.kind = "OlLayerPrimitive"
    /\ call.ret.items = RenderedFrom(1)

\* a skipped feature followed by a rendered one
C6_Witness ==
  /\ LayerConverted
  /\ Len(layer.source) = 2
  /\ layer.source[1] # Null /\ layer.source[1].geometry = Null
  /\ featurePrimitiveMap[1] = Undefined
  /\ featurePrimitiveMap[2] # Undefined
  /\ call.ret.items = <<featurePrimitiveMap[2]>>

LayerCallStep == calls' = calls + 1 /\ call'.op = "olVectorLayerToCesium"
ConvertStep == calls' = calls + 1 /\ call'.op = "convert"

\* C7 (as claimed): with a view without resolution or projection,
\* olVectorLayerToCesium raises and leaves the map (and everything else) as it
\* was; convert, with such a view or for a feature for which no style
\* resolves, returns null and leaves the contexts and listeners as they were.
C7_LayerRaises ==
  (LayerCallStep /\ ~ViewReady(call'.view)) =>
    /\ IsError(call'.ret)
    /\ featurePrimitiveMap' = featurePrimitiveMap
    /\ contexts' = contexts /\ listeners' = listeners

C7_ConvertReturnsNull ==
  (ConvertStep /\ (~ViewReady(call'.view)
                     \/ ResolvedStyle(layer.source[call'.feature]) = Null)) =>
    /\ call'.ret = Null
    /\ contexts' = contexts /\ listeners' = listeners

\* C7 (as claimed): both parts, of every step that is a call of
\* olVectorLayerToCesium or of convert.
C7_ViewNotReady == [][C7_LayerRaises /\ C7_ConvertReturnsNull]_vars

----------------------------------------------------------------------------
(* Claims about points, icons and collections (SpecFeature) *)

HasIcon == input.style.image # Null
IsMultiPoint == Geom # Null /\ Geom.type = "MultiPoint"

\* the icon of the converted style is one a billboard is made of at once
IconReadyAt(loaded) ==
  /\ HasIcon
  /\ input.style.image.image.kind \in {"HTMLCanvasElement", "Image"}
  /\ input.style.image.image.kind = "Image" => loaded[IconImage]

\* C11 (as claimed): a MultiPoint of n points converted with a style that has
\* an icon and no text raises nothing and returns null, each point with a
\* ready icon having given one billboard of the container, in source order;
\* with a style that has text the result is a collection of one label
\* renderable per point.
C11_MultiPointPerPoint ==
  (Converted /\ IsMultiPoint /\ HasIcon) =>
    LET n == Len(Geom.coordinates)
    IN IF HasText
       THEN /\ call.ret.kind = "PrimitiveCollection"
            /\ Len(call.ret.items) = n
            /\ \A i \in 1..n :
                 \E k \in 1..Len(call.ret.items[i].items) :
                   call.ret.items[i].items[k].kind = "LabelCollection"
       ELSE /\ ~IsError(call.ret)
            /\ call.ret = Null
            /\ (calls = 1 /\ IconReadyAt(call.loaded)) =>
                 /\ BillboardCount = n
                 /\ \A i \in 1..n :
                      contexts[1].billboards[i].position
                        = ol4326CoordinateToCesiumCartesian(Geom.coordinates[i])

IsPoint == input.kind = "conversion" /\ Geom # Null /\ Geom.type = "Point"

\* the style has an icon whose image is null, undefined or of another type
\* than a canvas or an image
IconRejected ==
  /\ HasIcon
  /\ input.style.image.image.kind \notin {"HTMLCanvasElement", "Image"}

NoBillboardNoCallback ==
  /\ contexts[1].billboards = <<>>
  /\ \A u \in Uids : contexts[1].featureToCesiumMap[u] = Undefined
  /\ listeners = <<>>

ReturnsLabelOrNull ==
  Converted =>
    IF HasText
    THEN /\ call.ret.kind = "PrimitiveCollection"
         /\ \E k \in 1..Len(call.ret.items) :
              /\ call.ret.items[k].kind = "LabelCollection"
              /\ Len(call.ret.items[k].items) = 1
    ELSE call.ret = Null

\* C12 (as claimed): for a Point converted with a style whose icon is absent,
\* or whose icon's image is null or of a type other than a canvas or an image,
\* no billboard is added to the container, the new-billboard callback is not
\* invoked (the context map stays empty, nothing waits for a load event) and
\* nothing is raised; the conversion returns the label collection when the
\* style has text and null otherwise.
C12_RejectedIconSilent ==
  (IsPoint /\ (~HasIcon \/ IconRejected)) =>
    /\ NoBillboardNoCallback
    /\ ReturnsLabelOrNull

\* The part of C12 that holds: the styles that do have an icon component,
\* whose image is null, undefined or of an unsupported type
C12_RejectedImageSilent ==
  (IsPoint /\ IconRejected) =>
    /\ NoBillboardNoCallback
    /\ ReturnsLabelOrNull

----------------------------------------------------------------------------
(* Claims about billboards and image loads across the layer (Spec) *)

\* the feature at position u is a Point whose resolved style has an icon a
\* billboard is made of
IsIconPoint(u) ==
  LET f == layer.source[u]
  IN /\ f # Null /\ f.geometry # Null /\ f.geometry.type = "Point"
     /\ ResolvedStyle(f) # Null /\ ResolvedStyle(f).image # Null
     /\ ResolvedStyle(f).image.image.kind \in {"HTMLCanvasElement", "Image"}

IconOfFeature(u) == ResolvedStyle(layer.source[u]).image.image

\* the style resolution of the feature at position v raises
Raises(v, view) ==
  /\ layer.source[v] # Null
  /\ IsError(computePlainStyle(layer, layer.source[v], layer.styleFunction,
                               view.resolution))

\* The point conversions of the feature at position u that the call cl makes
\* against the context c: one by convert called for it with a ready view, one
\* by a layer conversion (whose context is the newest, n) that reaches it
PointConversions(cl, u, c, n) ==
  IF cl.op = "convert"
  THEN IF cl.feature = u /\ cl.context = c /\ ViewReady(cl.view) /\ IsIconPoint(u)
       THEN 1 ELSE 0
  ELSE IF cl.op = "olVectorLayerToCesium"
  THEN IF ViewReady(cl.view) /\ c = n /\ IsIconPoint(u)
          /\ \A v \in 1..(u - 1) : ~Raises(v, cl.view)
       THEN 1 ELSE 0
  ELSE 0

BillboardsOf(u, c) ==
  SelectSeq(contexts[c].billboards, LAMBDA bb : bb.olFeature.uid = u)

PendingOf(u, c) ==
  SelectSeq(listeners, LAMBDA cl : cl.feature.uid = u /\ cl.billboards = c)

\* billboards and pending creations of the feature at position u in context c
Accounted(u, c) == Len(BillboardsOf(u, c)) + Len(PendingOf(u, c))

\* Every step: a call adds, for each point conversion with a supported icon
\* it makes, one billboard or one pending creation; a load event adds and
\* removes none, it turns pending creations into billboards; no billboard
\* ever leaves the container.
C13_OnePerConversion ==
  \A c \in 1..Len(contexts'), u \in 1..Len(layer.source) :
    LET before == IF c <= Len(contexts) THEN Accounted(u, c) ELSE 0
        made == IF calls' = calls + 1
                THEN PointConversions(call', u, c, Len(contexts')) ELSE 0
    IN /\ Accounted(u, c)' = before + made
       /\ c <= Len(contexts) =>
            /\ Len(BillboardsOf(u, c)') >= Len(BillboardsOf(u, c))
            /\ SubSeq(BillboardsOf(u, c)', 1, Len(BillboardsOf(u, c)))
                 = BillboardsOf(u, c)

\* Every state: a billboard of the feature is there only when its icon is a
\* canvas or its image has loaded, it shows the feature's icon at the
\* feature's position, and the one made last is what the callback stored in
\* the context map; a creation is pending only while its own image has not
\* loaded.
C13_AtItsOwnLoad ==
  \A c \in 1..Len(contexts), u \in 1..Len(layer.source) :
    LET bbs == BillboardsOf(u, c)
        pend == PendingOf(u, c)
        icon == IconOfFeature(u)
    IN /\ \A k \in 1..Len(bbs) :
            /\ icon.kind = "Image" => complete[icon.id]
            /\ bbs[k].kind = "Billboard"
            /\ bbs[k].image = icon
            /\ bbs[k].position
                 = ol4326CoordinateToCesiumCartesian(layer.source[u].geometry.coordinates)
       /\ contexts[c].featureToCesiumMap[u]
            = IF bbs = <<>> THEN Undefined ELSE bbs[Len(bbs)]
       /\ \A k \in 1..Len(pend) :
            /\ icon.kind = "Image" /\ ~complete[icon.id]
            /\ pend[k].image = icon

\* C13: across any interleaving of conversions and image load events, each
\* point conversion with a supported icon gives exactly one billboard, which
\* the callback stores in the context map: at once if the icon is a canvas or
\* its image has loaded, otherwise at the load event of its own image, never
\* before and never twice, whatever happens to the other features and after
\* the conversion that registered it has returned.
C13_OneBillboardPerPointConversion ==
  /\ []C13_AtItsOwnLoad
  /\ [][C13_OnePerConversion]_vars

\* the layer conversion has returned with both creations pending; the image
\* of the second feature has loaded and its billboard is there, the creation
\* of the first feature's is still pending
C13_Witness ==
  /\ LayerConverted
  /\ Len(layer.source) = 2
  /\ IsIconPoint(1) /\ IsIconPoint(2)
  /\ Len(PendingOf(1, 2)) = 1 /\ BillboardsOf(1, 2) = <<>>
  /\ Len(BillboardsOf(2, 2)) = 1
  /\ IconOfFeature(2).kind = "Image"
  /\ contexts[2].featureToCesiumMap[2] = contexts[2].billboards[1]

----------------------------------------------------------------------------
(* Claims about geometry collections and the context map (SpecFeature) *)

IsCollection ==
  input.kind = "conversion" /\ Geom # Null /\ Geom.type = "GeometryCollection"

\* The results of converting the members of gs from i on, one after the other,
\* through olFeatureToCesium from the world w; a null member gives null; the
\* list ends at the first member whose conversion raises
RECURSIVE MemberResults(_, _, _)
MemberResults(w, gs, i) ==
  IF i > Len(gs) THEN <<>>
  ELSE IF gs[i] = Null THEN <<[ret |-> Null, w |-> w]>> \o MemberResults(w, gs, i + 1)
  ELSE LET r == olFeatureToCesium(w, layer, input.feature, input.style, 1, gs[i])
       IN IF IsError(r.ret) THEN <<r>>
          ELSE <<r>> \o MemberResults(r.w, gs, i + 1)

RECURSIVE NonNullRets(_)
NonNullRets(rs) ==
  IF rs = <<>> THEN <<>>
  ELSE (IF Head(rs).ret = Null THEN <<>> ELSE <<Head(rs).ret>>) \o NonNullRets(Tail(rs))

HandledKinds ==
  {"GeometryCollection", "Point", "Circle", "LineString", "Polygon",
   "MultiPoint", "MultiLineString", "MultiPolygon"}

\* Every conversion of a GeometryCollection: the aggregate holds, in member
\* order, exactly the non-null results of the member conversions, and the
\* effects are those of the member conversions; a member whose conversion
\* raises makes the conversion raise the same; a LinearRing or a member of an
\* unknown kind makes it raise.
C14_MembersInOrder ==
  (IsCollection /\ calls' = calls + 1) =>
    LET gs == Geom.geometries
        rs == MemberResults(W, gs, 1)
        n == Len(rs)
    IN /\ IF n > 0 /\ IsError(rs[n].ret)
          THEN call'.ret = rs[n].ret
          ELSE /\ n = Len(gs)
               /\ call'.ret = PrimitiveCollection(NonNullRets(rs))
       /\ n > 0 =>
            /\ contexts' = rs[n].w.contexts
            /\ listeners' = rs[n].w.listeners
       /\ (\E i \in 1..Len(gs) : gs[i] # Null /\ gs[i].type \notin HandledKinds)
            => IsError(call'.ret)
       /\ \A i \in 1..n :
            (gs[i] # Null /\ gs[i].type = "LinearRing") =>
              call'.ret = Error("LinearRing should only be part of polygon.")

\* C14: converting a GeometryCollection returns an aggregate that holds, in
\* member order, exactly the non-null results of converting each non-null
\* member through olFeatureToCesium with the same layer, feature, style and
\* context (nested collections likewise); null members and members converted
\* to null are skipped without error; a LinearRing or a member of an unknown
\* kind makes the whole conversion fail.
C14_CollectionIsMemberResults == [][C14_MembersInOrder]_vars

\* a point with a canvas icon and no text (converted to null, its billboard
\* added), a null member and a line string: the aggregate holds the line
\* string's primitive alone
C14_Witness ==
  /\ IsCollection /\ Converted
  /\ Geom.geometries = <<Point(1), Null, LineString(2)>>
  /\ HasIcon /\ input.style.image.image = HTMLCanvasElement
  /\ HasStroke /\ ~HasText
  /\ call.ret.kind = "PrimitiveCollection"
  /\ Len(call.ret.items) = 1
  /\ call.ret.items[1].items[1].geometry.type = "PolylineGeometry"
  /\ BillboardCount >= 1

\* The coordinates of the points of a geometry, in the order of conversion
RECURSIVE PointsOf(_)
RECURSIVE PointsOfMembers(_)
PointsOf(g) ==
  IF g = Null THEN <<>>
  ELSE IF g.type = "Point" THEN <<g.coordinates>>
  ELSE IF g.type = "MultiPoint" THEN g.coordinates
  ELSE IF g.type = "GeometryCollection" THEN PointsOfMembers(g.geometries)
  ELSE <<>>

PointsOfMembers(gs) ==
  IF gs = <<>> THEN <<>> ELSE PointsOf(Head(gs)) \o PointsOfMembers(Tail(gs))

IconSupported ==
  HasIcon /\ input.style.image.image.kind \in {"HTMLCanvasElement", "Image"}

MapEntry == contexts[1].featureToCesiumMap[input.feature.uid]

\* Every step that adds billboards (each addition fires the callback): the
\* entry of the feature is the billboard made last, whatever it was before,
\* and no other entry changes.
C15_CallbackReplaces ==
  (input.kind = "conversion"
     /\ Len(contexts'[1].billboards) > Len(contexts[1].billboards)) =>
    LET after == contexts'[1].billboards
    IN /\ MapEntry' = after[Len(after)]
       /\ MapEntry' # MapEntry
       /\ \A u \in Uids \ {input.feature.uid} :
            contexts'[1].featureToCesiumMap[u] = contexts[1].featureToCesiumMap[u]

\* Every state: the map has no entry but the feature's, which is the billboard
\* made last and no earlier one.
C15_MapHoldsLast ==
  input.kind = "conversion" =>
    LET bbs == contexts[1].billboards
    IN /\ MapEntry = IF bbs = <<>> THEN Undefined ELSE bbs[Len(bbs)]
       /\ \A j \in 1..(Len(bbs) - 1) : bbs[j] # MapEntry
       /\ \A u \in Uids \ {input.feature.uid} :
            contexts[1].featureToCesiumMap[u] = Undefined

\* Every state after conversions that did not raise, of a feature with k
\* points and a supported icon: each conversion has given k billboards or
\* pending creations, all of the feature; once none is pending the container
\* holds the k billboards of each conversion, in the order of the points.
C15_ContainerHoldsAll ==
  (Converted /\ ~IsError(call.ret) /\ IconSupported) =>
    LET points == PointsOf(Geom)
        k == Len(points)
        bbs == contexts[1].billboards
    IN /\ Len(bbs) + Len(listeners) = k * calls
       /\ \A j \in 1..Len(bbs) : bbs[j].olFeature = FeatureRef(input.feature)
       /\ listeners = <<>> =>
            \A j \in 1..Len(bbs) :
              bbs[j].position
                = ol4326CoordinateToCesiumCartesian(points[((j - 1) % k) + 1])

\* C15: each firing of the new-billboard callback stores the billboard just
\* made in the context map under the feature's uid, replacing what was there;
\* so the map holds at most one billboard per feature, and once a feature of
\* k >= 2 points with supported icons (a MultiPoint, a GeometryCollection of
\* points) has all its billboards, the container holds the k of them and the
\* map the one made last.
C15_MapReferencesLastBillboard ==
  /\ [](C15_MapHoldsLast /\ C15_ContainerHoldsAll)
  /\ [][C15_CallbackReplaces]_vars

\* a MultiPoint of three points with text, converted once before its icon's
\* image had loaded; the load event has made the three billboards
C15_Witness ==
  /\ Converted /\ IsMultiPoint /\ Len(Geom.coordinates) = 3
  /\ HasText /\ IconImage # 0
  /\ calls = 1 /\ ~call.loaded[IconImage] /\ complete[IconImage]
  /\ BillboardCount = 3
  /\ MapEntry = contexts[1].billboards[3]
  /\ MapEntry.position = ol4326CoordinateToCesiumCartesian(3)

\* the same for a GeometryCollection of two points with a canvas icon
C15_WitnessCollection ==
  /\ Converted /\ IsCollection /\ Geom.geometries = <<Point(1), Point(2)>>
  /\ HasIcon /\ input.style.image.image = HTMLCanvasElement
  /\ calls = 1
  /\ BillboardCount = 2
  /\ MapEntry = contexts[1].billboards[2]

====
